---- MODULE Spec2Model ----
(***************************************************************************)
(* Developer Portfolio API (src/main.py, src/schemas.py): the credential   *)
(* store, the password hasher, the token codec, the auth gate and the      *)
(* admin-gated content mutations, as a state machine.                      *)
(*                                                                         *)
(* Requests are handled in parallel (FastAPI runs `def` endpoints on a     *)
(* thread pool), so every handler is split at its database calls: one      *)
(* action per database round trip, with the handler's position kept in     *)
(* req[r].pc.  Spec interleaves the steps of the requests freely; SpecSeq  *)
(* runs the same steps one request after another; SpecCodec applies the    *)
(* token codec (create_access_token, jwt.decode) to drawn inputs.          *)
(*                                                                         *)
(* Optional[T] is modelled as a sequence: <<>> is None, <<x>> is x.        *)
(* Time is the verifier's clock in whole seconds, the resolution of the    *)
(* exp claim.                                                              *)
(***************************************************************************)
EXTENDS Integers, Sequences, FiniteSets, TLC

VARIABLES users, content, SECRET_KEY, clock, ticks, tokens, req, served, verified

vars == <<users, content, SECRET_KEY, clock, ticks, tokens, req, served, verified>>

(***************************************************************************)
(* Bounds and input sets                                                   *)
(***************************************************************************)
MaxRequests == 3
MaxTicks == 2
MaxTokens == 1

Slots == {"r1", "r2"}
Usernames == {"alice", "bob"}
Passwords == {"secret123", "wrongpass"}
Roles == {"admin", "viewer"}
Salts == {"s1"}
Secrets == {"dev-secret", "rotated-secret"}
Payloads == {"doc1", "doc2"}
Deltas == {<<>>, <<0>>, <<1>>, <<2>>}

None == <<>>
Some(x) == <<x>>

(***************************************************************************)
(* Program constants                                                       *)
(***************************************************************************)
ALGORITHM == "HS256"
ACCESS_TOKEN_EXPIRE_MINUTES == 60 * 24

\* timedelta(minutes = m) in seconds
timedelta_minutes(m) == m * 60

AddCollections == {"certification", "project", "blogpost"}
SetCollections == {"sociallinks", "resume"}
Collections == AddCollections \cup SetCollections

(***************************************************************************)
(* Password hasher: pwd_context.hash / pwd_context.verify (bcrypt).        *)
(* The digest is an ideal one-way function of salt and password.           *)
(***************************************************************************)
get_password_hash(password, salt) ==
    [salt |-> salt, digest |-> <<salt, password>>]

verify_password(plain_password, hashed_password) ==
    hashed_password.digest = <<hashed_password.salt, plain_password>>

(***************************************************************************)
(* Document storage collaborator                                           *)
(***************************************************************************)
Min(S) == CHOOSE x \in S : \A y \in S : x <= y

\* db["user"].find_one({"username": username}): the first match, or None
find_one(coll, username) ==
    LET hits == {i \in DOMAIN coll : coll[i].username = username}
    IN  IF hits = {} THEN None ELSE Some(coll[Min(hits)])

\* insert(collection, document) -> id or DuplicateKeyError: whether the user
\* collection carries a unique index on username is the storage layer's
\* configuration, so an insert of a second document of the same username
\* may be refused (unique) or accepted
DuplicateKey(coll, doc, unique) ==
    unique /\ find_one(coll, doc.username) # None

create_document(coll, doc) == Append(coll, doc)

\* db[collection].delete_many({})
delete_many(coll) == <<>>

(***************************************************************************)
(* Token codec: jose.jwt.encode / jose.jwt.decode with HS256.              *)
(* A compact JWS has three segments; the signature is an ideal MAC of the  *)
(* header and payload under the key.                                       *)
(***************************************************************************)
HS256(key, header, payload) ==
    [key |-> key, header |-> header, payload |-> payload]

jwt_encode(claims, key, algorithm) ==
    LET header == [alg |-> algorithm]
    IN  [segments |-> 3, header |-> header, payload |-> claims,
         signature |-> HS256(key, header, claims)]

JWTError(kind) == [ok |-> FALSE, err |-> kind, claims |-> [sub |-> None, exp |-> 0]]

\* mutant: the claims are read without verifying the signature
jwt_decode_unverified(token, key, algorithms, now) ==
    IF token.segments # 3 THEN JWTError("Malformed")
    ELSE IF token.header.alg \notin algorithms THEN JWTError("Malformed")
    ELSE IF token.payload.exp < now THEN JWTError("Expired")
    ELSE [ok |-> TRUE, err |-> "", claims |-> token.payload]

\* jwt.decode(token, key, algorithms): structure, algorithm, signature, then
\* the exp claim against the verifier's clock (expired when exp < now)
jwt_decode(token, key, algorithms, now) ==
    IF token.segments # 3 THEN JWTError("Malformed")
    ELSE IF token.header.alg \notin algorithms THEN JWTError("Malformed")
    ELSE IF token.signature # HS256(key, token.header, token.payload)
         THEN JWTError("SignatureInvalid")
    ELSE IF token.payload.exp < now THEN JWTError("Expired")
    ELSE [ok |-> TRUE, err |-> "", claims |-> token.payload]

\* expires_delta or timedelta(minutes=ACCESS_TOKEN_EXPIRE_MINUTES):
\* Python's `or` takes the default for None and for the falsy timedelta(0)
DeltaOrDefault(expires_delta) ==
    IF expires_delta = None \/ expires_delta = Some(0)
    THEN timedelta_minutes(ACCESS_TOKEN_EXPIRE_MINUTES)
    ELSE expires_delta[1]

\* mutant: the lifetime is subtracted from the clock
create_access_token_past(data, expires_delta, now, key) ==
    LET expire == now - DeltaOrDefault(expires_delta)
    IN  jwt_encode([sub |-> data.sub, exp |-> expire], key, ALGORITHM)

create_access_token(data, expires_delta, now, key) ==
    LET expire == now + DeltaOrDefault(expires_delta)
    IN  jwt_encode([sub |-> data.sub, exp |-> expire], key, ALGORITHM)

(***************************************************************************)
(* HTTP responses                                                          *)
(***************************************************************************)
Response(status, detail, www) == [status |-> status, detail |-> detail, www |-> www]

NoResponse == Response(0, "", "")
Ok200(detail) == Response(200, detail, "")
AlreadyExists == Response(400, "Username already exists", "")
InvalidCredentials == Response(400, "Incorrect username or password", "")
credentials_exception == Response(401, "Could not validate credentials", "Bearer")
NotAuthenticated == Response(401, "Not authenticated", "Bearer")
\* an exception no handler catches: Starlette's 500
InternalServerError == Response(500, "Internal Server Error", "")

(***************************************************************************)
(* Auth gate                                                               *)
(***************************************************************************)
Garbage ==
    [segments |-> 1, header |-> [alg |-> ""], payload |-> [sub |-> None, exp |-> 0],
     signature |-> HS256("", [alg |-> ""], [sub |-> None, exp |-> 0])]

NoHeader == [present |-> FALSE, scheme |-> "", param |-> Garbage]
Authorization(scheme, token) == [present |-> TRUE, scheme |-> scheme, param |-> token]

\* OAuth2PasswordBearer(tokenUrl="/auth/token"): the bearer token of the
\* Authorization header, or 401 "Not authenticated" when there is none
oauth2_scheme(authorization) ==
    IF ~authorization.present \/ authorization.scheme # "bearer"
    THEN [ok |-> FALSE, token |-> Garbage]
    ELSE [ok |-> TRUE, token |-> authorization.param]

GateFailure(why) == [ok |-> FALSE, why |-> why, user |-> None]

\* mutant: the stored role is left out of the User, which then takes the
\* schema's default
get_current_user_default_role(token, key, now, coll) ==
    LET decoded == jwt_decode(token, key, {ALGORITHM}, now)
    IN  IF ~decoded.ok THEN GateFailure(decoded.err)
        ELSE IF decoded.claims.sub = None THEN GateFailure("NoSubject")
        ELSE LET user_doc == find_one(coll, decoded.claims.sub[1])
             IN  IF user_doc = None THEN GateFailure("PrincipalNotFound")
                 ELSE [ok |-> TRUE, why |-> "",
                       user |-> Some([username |-> user_doc[1].username,
                                      hashed_password |-> user_doc[1].hashed_password,
                                      role |-> "admin"])]

\* get_current_user: decode and verify, then look the subject up in the store
get_current_user(token, key, now, coll) ==
    LET decoded == jwt_decode(token, key, {ALGORITHM}, now)
    IN  IF ~decoded.ok THEN GateFailure(decoded.err)
        ELSE IF decoded.claims.sub = None THEN GateFailure("NoSubject")
        ELSE LET user_doc == find_one(coll, decoded.claims.sub[1])
             IN  IF user_doc = None THEN GateFailure("PrincipalNotFound")
                 ELSE [ok |-> TRUE, why |-> "",
                       user |-> Some([username |-> user_doc[1].username,
                                      hashed_password |-> user_doc[1].hashed_password,
                                      role |-> user_doc[1].role])]

\* the dependency of an admin endpoint: oauth2_scheme, then get_current_user
authenticate(authorization, key, now, coll) ==
    LET bearer == oauth2_scheme(authorization)
    IN  IF ~bearer.ok THEN GateFailure("NoToken")
        ELSE get_current_user(bearer.token, key, now, coll)

\* mutant: a missing principal is answered by an error of its own
AuthFailureResponseLeaky(why) ==
    IF why = "NoToken" THEN NotAuthenticated
    ELSE IF why = "PrincipalNotFound" THEN Response(404, "User not found", "")
    ELSE credentials_exception

\* what a failed dependency answers
AuthFailureResponse(why) ==
    IF why = "NoToken" THEN NotAuthenticated ELSE credentials_exception

\* mutant: the endpoint does not depend on get_current_user
DependsIgnored(gate) == TRUE

\* user: User = Depends(get_current_user): the endpoint body runs only when
\* the dependency returned a user
DependsPassed(gate) == gate.ok

(***************************************************************************)
(* Requests                                                                *)
(***************************************************************************)
AdminKinds == {"add_cert", "add_project", "add_blog", "set_social", "set_resume"}

CollectionOf(kind) ==
    CASE kind = "add_cert" -> "certification"
      [] kind = "add_project" -> "project"
      [] kind = "add_blog" -> "blogpost"
      [] kind = "set_social" -> "sociallinks"
      [] kind = "set_resume" -> "resume"

IdleRequest ==
    [kind |-> "idle", pc |-> "idle", username |-> "", password |-> "", role |-> "",
     fresh |-> FALSE, header |-> NoHeader, body |-> "", user |-> None, why |-> "",
     resp |-> NoResponse, out |-> None]

Free(r) == req[r].pc \in {"idle", "done"} /\ served < MaxRequests

\* tokens a client may present: those login issued, and strings made up
IssuedTokens == {rec.token : rec \in tokens}
Tamper(token) ==
    [token EXCEPT !.payload.sub =
        IF token.payload.sub = Some("alice") THEN Some("bob") ELSE Some("alice")]
Forged(sub) ==
    jwt_encode([sub |-> sub, exp |-> timedelta_minutes(ACCESS_TOKEN_EXPIRE_MINUTES)],
               "dev-secret", ALGORITHM)
PresentedHeaders ==
    {NoHeader}
    \cup {Authorization("bearer", t) : t \in IssuedTokens}
    \cup {Authorization("bearer", Tamper(t)) : t \in IssuedTokens}
    \cup {Authorization("bearer", t) : t \in {Garbage, Forged(None), Forged(Some("bob"))}}

(***************************************************************************)
(* Initial state                                                           *)
(***************************************************************************)
Init ==
    /\ users = <<>>
    /\ content = [c \in Collections |-> <<>>]
    /\ SECRET_KEY = "dev-secret"
    /\ clock = 0
    /\ ticks = 0
    /\ tokens = {}
    /\ req = [r \in Slots |-> IdleRequest]
    /\ served = 0
    /\ verified = None

(***************************************************************************)
(* POST /auth/register                                                     *)
(***************************************************************************)
\* mutant: the existence check is dropped
UsernameNeverTaken(coll, username) == FALSE

\* if db["user"].find_one({"username": user.username})
UsernameTaken(coll, username) == find_one(coll, username) # None

\* arrival and the existence check
RegisterFind(r, u, p, role) ==
    /\ Free(r)
    /\ served' = served + 1
    /\ LET taken == UsernameTaken(users, u)
           base == [IdleRequest EXCEPT !.kind = "register", !.username = u,
                                       !.password = p, !.role = role,
                                       !.fresh = (find_one(users, u) = None)]
       IN  req' = [req EXCEPT ![r] =
                    IF taken THEN [base EXCEPT !.pc = "done", !.resp = AlreadyExists]
                    ELSE [base EXCEPT !.pc = "insert"]]
    /\ UNCHANGED <<users, content, SECRET_KEY, clock, ticks, tokens, verified>>

\* hashing, then create_document("user", user_dict); a DuplicateKeyError is
\* not caught and leaves the handler as a 500
RegisterInsert(r, salt, unique) ==
    /\ req[r].kind = "register"
    /\ req[r].pc = "insert"
    /\ LET hashed == get_password_hash(req[r].password, salt)
           user_dict == [username |-> req[r].username, hashed_password |-> hashed,
                         role |-> req[r].role]
       IN  IF DuplicateKey(users, user_dict, unique)
           THEN /\ users' = users
                /\ req' = [req EXCEPT ![r].pc = "done", ![r].resp = InternalServerError]
           ELSE /\ users' = create_document(users, user_dict)
                /\ req' = [req EXCEPT ![r].pc = "done", ![r].resp = Ok200("registered")]
    /\ UNCHANGED <<content, SECRET_KEY, clock, ticks, tokens, served, verified>>

(***************************************************************************)
(* POST /auth/token                                                        *)
(***************************************************************************)
\* if not user_doc or not verify_password(form_data.password, user_doc["hashed_password"])
LoginRejected(user_doc, password) ==
    user_doc = None \/ ~verify_password(password, user_doc[1].hashed_password)

\* mutant: an unknown username is answered by an error of its own
LoginFailureLeaky(user_doc, password) ==
    IF user_doc = None THEN Response(404, "User not found", "") ELSE InvalidCredentials

\* raise HTTPException(status_code=400, detail="Incorrect username or password")
LoginFailure(user_doc, password) == InvalidCredentials

login(r, u, p) ==
    /\ Free(r)
    /\ served' = served + 1
    /\ LET user_doc == find_one(users, u)
           base == [IdleRequest EXCEPT !.kind = "login", !.pc = "done", !.username = u,
                                       !.password = p, !.fresh = (user_doc = None)]
           access_token == create_access_token([sub |-> Some(u)], None, clock, SECRET_KEY)
       IN  IF LoginRejected(user_doc, p)
           THEN /\ req' = [req EXCEPT ![r] = [base EXCEPT !.resp = LoginFailure(user_doc, p)]]
                /\ tokens' = tokens
           ELSE /\ req' = [req EXCEPT ![r] =
                            [base EXCEPT !.resp = Ok200("bearer"), !.out = Some(access_token)]]
                /\ tokens' = tokens \cup
                      {[token |-> access_token, sub |-> u, delta |-> None,
                        at |-> clock, key |-> SECRET_KEY]}
    /\ UNCHANGED <<users, content, SECRET_KEY, clock, ticks, verified>>

(***************************************************************************)
(* POST /admin/...                                                         *)
(***************************************************************************)
\* arrival and the dependency: user = Depends(get_current_user)
AdminAuth(r, kind, authorization) ==
    /\ Free(r)
    /\ served' = served + 1
    /\ LET gate == authenticate(authorization, SECRET_KEY, clock, users)
           base == [IdleRequest EXCEPT !.kind = kind, !.header = authorization,
                                       !.why = gate.why, !.user = gate.user]
       IN  req' = [req EXCEPT ![r] =
                    IF DependsPassed(gate)
                    THEN [base EXCEPT !.pc = IF CollectionOf(kind) \in SetCollections
                                             THEN "delete" ELSE "insert"]
                    ELSE [base EXCEPT !.pc = "done",
                                      !.resp = AuthFailureResponse(gate.why)]]
    /\ UNCHANGED <<users, content, SECRET_KEY, clock, ticks, tokens, verified>>

\* set_social, set_resume: db[collection].delete_many({})
AdminDelete(r) ==
    /\ req[r].kind \in AdminKinds
    /\ req[r].pc = "delete"
    /\ content' = [content EXCEPT ![CollectionOf(req[r].kind)] = delete_many(@)]
    /\ req' = [req EXCEPT ![r].pc = "insert"]
    /\ UNCHANGED <<users, SECRET_KEY, clock, ticks, tokens, served, verified>>

\* return create_document(collection, payload); the payload is the request's
\* body, first read here
AdminInsert(r, payload) ==
    /\ req[r].kind \in AdminKinds
    /\ req[r].pc = "insert"
    /\ content' = [content EXCEPT ![CollectionOf(req[r].kind)] = create_document(@, payload)]
    /\ req' = [req EXCEPT ![r].pc = "done", ![r].body = payload, ![r].resp = Ok200("id")]
    /\ UNCHANGED <<users, SECRET_KEY, clock, ticks, tokens, served, verified>>

(***************************************************************************)
(* Environment: the clock, and a restart under another SECRET_KEY          *)
(***************************************************************************)
Tick(d) ==
    /\ ticks < MaxTicks
    /\ ticks' = ticks + 1
    /\ clock' = clock + d
    /\ UNCHANGED <<users, content, SECRET_KEY, tokens, req, served, verified>>

\* SECRET_KEY = os.getenv("SECRET_KEY", "dev-secret") is read once per process:
\* a restart drops the requests in flight and keeps the database
Restart(key) ==
    /\ key # SECRET_KEY
    /\ SECRET_KEY' = key
    /\ req' = [r \in Slots |-> IdleRequest]
    /\ UNCHANGED <<users, content, clock, ticks, tokens, served, verified>>

(***************************************************************************)
(* Token codec applied directly                                            *)
(***************************************************************************)
Issue(sub, expires_delta) ==
    /\ Cardinality(tokens) < MaxTokens
    /\ tokens' = tokens \cup
          {[token |-> create_access_token([sub |-> Some(sub)], expires_delta, clock, SECRET_KEY),
            sub |-> sub, delta |-> expires_delta, at |-> clock, key |-> SECRET_KEY]}
    /\ UNCHANGED <<users, content, SECRET_KEY, clock, ticks, req, served, verified>>

Verify(rec) ==
    /\ verified' = Some([rec |-> rec, now |-> clock, key |-> SECRET_KEY,
                         result |-> jwt_decode(rec.token, SECRET_KEY, {ALGORITHM}, clock)])
    /\ UNCHANGED <<users, content, SECRET_KEY, clock, ticks, tokens, req, served>>

Rotate(key) ==
    /\ key # SECRET_KEY
    /\ SECRET_KEY' = key
    /\ UNCHANGED <<users, content, clock, ticks, tokens, req, served, verified>>

(***************************************************************************)
(* Specifications                                                          *)
(***************************************************************************)
\* the clock advances by a second or by a token's default lifetime; the
\* request specifications advance it by whole lifetimes
Lifetime == timedelta_minutes(ACCESS_TOKEN_EXPIRE_MINUTES)
TickSteps == {1, Lifetime}

Next ==
    \/ \E r \in Slots, u \in Usernames, p \in Passwords, role \in Roles : RegisterFind(r, u, p, role)
    \/ \E r \in Slots, salt \in Salts, unique \in BOOLEAN : RegisterInsert(r, salt, unique)
    \/ \E r \in Slots, u \in Usernames, p \in Passwords : login(r, u, p)
    \/ \E r \in Slots, kind \in AdminKinds, h \in PresentedHeaders : AdminAuth(r, kind, h)
    \/ \E r \in Slots : AdminDelete(r)
    \/ \E r \in Slots, payload \in Payloads : AdminInsert(r, payload)
    \/ Tick(Lifetime)
    \/ \E key \in Secrets : Restart(key)

Spec == Init /\ [][Next]_vars

\* one request after another: a single worker
Worker == {"r1"}

NextSeq ==
    \/ \E r \in Worker, u \in Usernames, p \in Passwords, role \in Roles : RegisterFind(r, u, p, role)
    \/ \E r \in Worker, salt \in Salts, unique \in BOOLEAN : RegisterInsert(r, salt, unique)
    \/ \E r \in Worker, u \in Usernames, p \in Passwords : login(r, u, p)
    \/ \E r \in Worker, kind \in AdminKinds, h \in PresentedHeaders : AdminAuth(r, kind, h)
    \/ \E r \in Worker : AdminDelete(r)
    \/ \E r \in Worker, payload \in Payloads : AdminInsert(r, payload)
    \/ Tick(Lifetime)
    \/ \E key \in Secrets : Restart(key)

SpecSeq == Init /\ [][NextSeq]_vars

NextCodec ==
    \/ \E sub \in Usernames, expires_delta \in Deltas : Issue(sub, expires_delta)
    \/ \E rec \in tokens : Verify(rec)
    \/ \E d \in TickSteps : Tick(d)
    \/ \E key \in Secrets : Rotate(key)

SpecCodec == Init /\ [][NextCodec]_vars

(***************************************************************************)
(* Helpers of the properties                                               *)
(***************************************************************************)
\* the stored principals of a username
StoredPrincipals(u) == {users[i] : i \in {j \in DOMAIN users : users[j].username = u}}

IsAdmin(q) == q.kind \in AdminKinds
Done(q) == q.pc = "done"
\* an admin request whose dependency failed
AuthFailed(q) == IsAdmin(q) /\ Done(q) /\ q.user = None
CarriesBearer(q) == q.header.present /\ q.header.scheme = "bearer"

\* request r arrives in this step
Arrives(r) ==
    /\ served' = served + 1
    /\ \A o \in Slots \ {r} : req'[o] = req[o]
    /\ req'[r].kind # "idle"

(***************************************************************************)
(* C1: if two concurrent register requests use the same username and no    *)
(* principal of that username existed beforehand, exactly one succeeds,    *)
(* the other observes AlreadyExists (400 "Username already exists"), and   *)
(* the user collection ends with exactly one record of that username.      *)
(* The code checks, then inserts: the statement fails.                     *)
(***************************************************************************)
C1_ExactlyOneRegistrationSucceeds ==
    \A r1, r2 \in Slots :
        ( /\ r1 # r2
          /\ req[r1].kind = "register" /\ req[r2].kind = "register"
          /\ Done(req[r1]) /\ Done(req[r2])
          /\ req[r1].username = req[r2].username
          /\ (req[r1].fresh \/ req[r2].fresh) )
        => /\ \/ req[r1].resp = Ok200("registered") /\ req[r2].resp = AlreadyExists
              \/ req[r2].resp = Ok200("registered") /\ req[r1].resp = AlreadyExists
           /\ Cardinality({i \in DOMAIN users : users[i].username = req[r1].username}) = 1

(***************************************************************************)
(* C2: with register calls executed one after another, a register call     *)
(* whose username is already stored fails with AlreadyExists and leaves    *)
(* the store unchanged, and every reachable store holds exactly one        *)
(* principal per registered username.                                      *)
(***************************************************************************)
C2_OnePrincipalPerUsername ==
    \A i, j \in DOMAIN users : users[i].username = users[j].username => i = j

C2_DuplicateRejected ==
    \A r \in Slots :
        (Arrives(r) /\ req'[r].kind = "register"
            /\ StoredPrincipals(req'[r].username) # {})
        => /\ req'[r].resp = AlreadyExists
           /\ Done(req'[r])
           /\ users' = users

C2_RegisterKeepsStoreUnique ==
    [](C2_OnePrincipalPerUsername) /\ [][C2_DuplicateRejected]_vars

\* a rejected registration whose password and role differ from the stored ones
C2_Witness ==
    \E r \in Slots :
        /\ req[r].kind = "register" /\ Done(req[r]) /\ req[r].resp = AlreadyExists
        /\ \E doc \in StoredPrincipals(req[r].username) :
              /\ doc.role # req[r].role
              /\ ~verify_password(req[r].password, doc.hashed_password)

(***************************************************************************)
(* C3: a login with a username that is not stored and a login with a       *)
(* stored username whose password does not verify get the identical        *)
(* response (400 "Incorrect username or password"), and no token is        *)
(* issued in either case.                                                  *)
(***************************************************************************)
\* the login of q found no principal, or one whose hash rejects the password
\* (the store only grows, and find_one answers the first match)
LoginMustFail(q) ==
    \/ q.fresh
    \/ \E doc \in StoredPrincipals(q.username) :
          /\ find_one(users, q.username) = Some(doc)
          /\ ~verify_password(q.password, doc.hashed_password)

C3_GenericLoginFailure ==
    \A r \in Slots :
        (req[r].kind = "login" /\ Done(req[r]) /\ LoginMustFail(req[r]))
        => /\ req[r].resp = InvalidCredentials
           /\ req[r].out = None

C3_Witness ==
    \E r \in Slots :
        /\ req[r].kind = "login" /\ Done(req[r]) /\ ~req[r].fresh
        /\ StoredPrincipals(req[r].username) # {}
        /\ LoginMustFail(req[r])
        /\ req[r].resp = InvalidCredentials

(***************************************************************************)
(* C4: authenticate on a token that verifies looks its subject up in the   *)
(* credential store at verification time: with no principal of that        *)
(* username stored it fails; with one stored it returns exactly that       *)
(* principal, username and role as stored.  So after register(u, p, role)  *)
(* and a successful login(u, p), the returned token resolves               *)
(* {username: u, role: role}.                                              *)
(***************************************************************************)
Principal(doc) ==
    [username |-> doc.username, hashed_password |-> doc.hashed_password, role |-> doc.role]

C4_Resolution ==
    \A r \in Slots :
        LET q == req'[r]
            decoded == jwt_decode(q.header.param, SECRET_KEY, {ALGORITHM}, clock)
        IN  ( /\ Arrives(r) /\ IsAdmin(q) /\ CarriesBearer(q)
              /\ decoded.ok /\ decoded.claims.sub # None )
            => LET stored == StoredPrincipals(decoded.claims.sub[1])
               IN  IF stored = {}
                   THEN q.user = None /\ Done(q) /\ q.resp.status = 401
                   ELSE /\ Cardinality(stored) = 1
                        /\ q.user # None
                        /\ \A doc \in stored : q.user = Some(Principal(doc))
                        /\ ~Done(q)

C4_AuthenticateResolvesStoredPrincipal == [][C4_Resolution]_vars

\* a token returned by login resolves a principal registered with a role
\* other than the default
C4_Witness ==
    \E r \in Slots, rec \in tokens :
        /\ IsAdmin(req[r])
        /\ req[r].header = Authorization("bearer", rec.token)
        /\ req[r].user # None
        /\ req[r].user[1].username = rec.sub
        /\ req[r].user[1].role = "viewer"

(***************************************************************************)
(* C5: every way authenticate can fail is surfaced as the same failure,    *)
(* 401 with WWW-Authenticate: Bearer and the same error value.             *)
(* As stated (C5_Original) it fails for a request without a token, which   *)
(* the OAuth2 scheme answers "Not authenticated"; C5_SameFailure is the    *)
(* statement that holds: every failure is a 401 with WWW-Authenticate:     *)
(* Bearer, every failure on a presented bearer token has the one error     *)
(* value of credentials_exception, and a request without a bearer token    *)
(* has the detail "Not authenticated".                                     *)
(***************************************************************************)
C5_Original ==
    \A r \in Slots : AuthFailed(req[r]) => req[r].resp = credentials_exception

C5_SameFailure ==
    \A r \in Slots :
        AuthFailed(req[r])
        => /\ req[r].resp.status = 401
           /\ req[r].resp.www = "Bearer"
           /\ CarriesBearer(req[r]) => req[r].resp = credentials_exception
           /\ ~CarriesBearer(req[r]) => req[r].resp.detail = "Not authenticated"

\* a token login issued, rejected once it has expired
C5_Witness ==
    \E r \in Slots, rec \in tokens :
        /\ AuthFailed(req[r])
        /\ req[r].header = Authorization("bearer", rec.token)
        /\ req[r].why = "Expired"
        /\ req[r].resp = credentials_exception

(***************************************************************************)
(* C6: a token is accepted only while the verifier's clock is before       *)
(* expires_at = issue time + ttl; a token issued with ttl = 0 fails        *)
(* verification.  create_access_token takes the default lifetime for       *)
(* ttl = 0, so the statement fails.                                        *)
(***************************************************************************)
RequestedTtl(rec) == IF rec.delta = None THEN Lifetime ELSE rec.delta[1]

C6_AcceptedOnlyBeforeExpiry ==
    verified # None =>
        (verified[1].result.ok => verified[1].now < verified[1].rec.at + RequestedTtl(verified[1].rec))

(***************************************************************************)
(* C7: token round trip: for every subject s and ttl t > 0, verifying      *)
(* issue(s, t) at the clock value and under the secret of its issuance     *)
(* succeeds and returns exactly s.                                         *)
(***************************************************************************)
C7_RoundTrip ==
    verified # None =>
        LET v == verified[1]
        IN  ( /\ v.rec.delta # None /\ RequestedTtl(v.rec) > 0
              /\ v.now = v.rec.at /\ v.key = v.rec.key )
            => v.result.ok /\ v.result.claims.sub = Some(v.rec.sub)

C7_Witness ==
    /\ verified # None
    /\ verified[1].rec.delta = Some(1)
    /\ verified[1].now = verified[1].rec.at
    /\ verified[1].key = verified[1].rec.key
    /\ verified[1].result.ok
    /\ verified[1].result.claims.sub = Some("alice")

(***************************************************************************)
(* C8: every admin mutation authenticates first: a request whose           *)
(* authentication fails returns 401 and performs no insert and no          *)
(* delete_many; a content collection changes only in a step of a request   *)
(* on that collection whose token authenticated.                           *)
(***************************************************************************)
C8_FailedRequestStops ==
    \A r \in Slots :
        (IsAdmin(req[r]) /\ req[r].user = None)
        => Done(req[r]) /\ req[r].resp.status = 401 /\ req[r].body = ""

C8_ChangeIsAuthenticated ==
    \A c \in Collections :
        content'[c] # content[c]
        => \E r \in Slots :
              /\ IsAdmin(req[r]) /\ CollectionOf(req[r].kind) = c
              /\ req[r].user # None
              /\ StoredPrincipals(req[r].user[1].username) # {}
              /\ req[r].pc \in {"delete", "insert"}
              /\ req'[r].pc # req[r].pc

C8_MutationRequiresAuthentication ==
    [](C8_FailedRequestStops) /\ [][C8_ChangeIsAuthenticated]_vars

\* a rejected set_social left the stored links in place
C8_Witness ==
    \E r \in Slots :
        /\ req[r].kind = "set_social" /\ AuthFailed(req[r])
        /\ req[r].resp.status = 401
        /\ content["sociallinks"] # <<>>

(***************************************************************************)
(* C9: after the signing secret has changed, every token issued under the  *)
(* previous secret fails verification, even if it has not expired and its  *)
(* subject is still stored.                                                *)
(***************************************************************************)
C9_RotationInvalidatesTokens ==
    \A r \in Slots, rec \in tokens :
        ( /\ IsAdmin(req[r])
          /\ req[r].header = Authorization("bearer", rec.token)
          /\ rec.key # SECRET_KEY )
        => /\ AuthFailed(req[r])
           /\ req[r].why = "SignatureInvalid"
           /\ req[r].resp = credentials_exception

C9_Witness ==
    \E r \in Slots, rec \in tokens :
        /\ AuthFailed(req[r])
        /\ req[r].header = Authorization("bearer", rec.token)
        /\ rec.key # SECRET_KEY
        /\ rec.token.payload.exp >= clock
        /\ StoredPrincipals(rec.sub) # {}

(***************************************************************************)
(* C10: set_social and set_resume replace the stored content: once all     *)
(* requests have completed, also requests handled concurrently, the        *)
(* sociallinks (resume) collection holds at most one document, the payload *)
(* of one of the requests.  delete_many and the insert are two steps, so   *)
(* the statement fails.                                                    *)
(***************************************************************************)
C10_AtMostOneDocument ==
    (\A r \in Slots : req[r].pc \in {"idle", "done"})
    => \A c \in SetCollections : Len(content[c]) <= 1

====
